---- MODULE Spec2Model ----
(***************************************************************************)
(* Model of the Typesense CDK stack: src/lib/typesense-stack.ts holds      *)
(* three revisions of the TypesenseStack constructor, src/bin/app.ts       *)
(* instantiates one stack per environment.  The constructor is a           *)
(* synchronous function from the environment tag (and, in the third        *)
(* revision, the bytes drawn by generateApiKey) to a resource graph.  The  *)
(* state machine constructs stacks and re-synthesises them (a stack        *)
(* update), keeping the graph of the first and of the latest synthesis.    *)
(***************************************************************************)
EXTENDS Integers, Sequences, FiniteSets, TLC

VARIABLES revision, stacks

vars == <<revision, stacks>>

(***************************************************************************)
(* Bounds of the model                                                     *)
(***************************************************************************)
\* bytes drawn by generateApiKey (the code's default length is 32)
KeyBytes == 1
\* syntheses of one stack that are told apart (first, later ones)
MaxResolves == 3

\* values a random byte takes in the model
ByteValues == {10, 255}

\* the three class declarations of src/lib/typesense-stack.ts
Revisions == {1, 2, 3}

\* the stack ids of src/bin/app.ts used by the model
StackIds == {"TypesenseStack-Dev", "TypesenseStack-Prod"}

\* TypesenseStackProps.environment: 'dev' | 'stage' | 'prod'
Environments == {"dev", "stage", "prod"}

\* values that reach the constructor at run time: the declared ones and one
\* that the erased type annotation does not keep out
EnvironmentInputs == Environments \cup {"production"}

(***************************************************************************)
(* Values of the resource graph                                            *)
(***************************************************************************)
NoResource == [kind |-> "none"]

\* a deploy-time reference to an attribute of a construct (a CDK token)
Ref(target, attr) == [prefix |-> "", target |-> target, attr |-> attr, literal |-> ""]

\* a literal string
Literal(s) == [prefix |-> "", target |-> "", attr |-> "", literal |-> s]

\* a template literal `prefix${target.attr}`
Interpolate(prefix, target, attr) ==
  [prefix |-> prefix, target |-> target, attr |-> attr, literal |-> ""]

CfnOutput(id, value) == [id |-> id, value |-> value]

\* ecs.Secret.fromSecretsManager(secret, field)
FromSecretsManager(secretId, field) == [secret |-> secretId, field |-> field]

(***************************************************************************)
(* generateApiKey: crypto.randomBytes(length).toString('hex')              *)
(***************************************************************************)
HexDigits == <<"0", "1", "2", "3", "4", "5", "6", "7", "8", "9",
               "a", "b", "c", "d", "e", "f">>

\* Buffer.toString('hex'): two lowercase hex digits per byte
RECURSIVE toStringHex(_)
toStringHex(bytes) ==
  IF bytes = <<>> THEN ""
  ELSE HexDigits[(Head(bytes) \div 16) + 1] \o HexDigits[(Head(bytes) % 16) + 1]
       \o toStringHex(Tail(bytes))

\* the outcomes of crypto.randomBytes(length)
randomBytes(length) == [1..length -> ByteValues]

generateApiKey(bytes) == toStringHex(bytes)

\* JSON.stringify({ apiKey: value }) as its sequence of JSON tokens
JSONstringify(key, value) == <<"{", key, ":", value, "}">>

\* the value a JSON template holds under a key (JSON.parse(template)[key])
JSONfield(template, key) ==
  IF \E i \in 1..(Len(template) - 2) : template[i] = key /\ template[i + 1] = ":"
  THEN LET i == CHOOSE j \in 1..(Len(template) - 2) :
                  template[j] = key /\ template[j + 1] = ":"
       IN template[i + 2]
  ELSE ""

(***************************************************************************)
(* Decisions shared by the revisions                                       *)
(***************************************************************************)
\* the NAT gateway never provisioned
natGatewaysNone(environment) == 0

\* natGateways: environment === 'prod' ? 1 : 0
natGateways(environment) == IF environment = "prod" THEN 1 ELSE 0

\* the branch condition with the stage disjunct lost
isDevOnly(environment) == environment = "dev"

\* if (environment === 'dev' || environment === 'stage')
isDevOrStage(environment) == environment = "dev" \/ environment = "stage"

\* ec2.Vpc with no subnetConfiguration: public subnets plus, per AZ, a
\* private-with-egress subnet when the VPC has a NAT gateway and an isolated
\* subnet when it has none
vpcSubnetTypes(nat) ==
  IF nat = 0 THEN {"PUBLIC", "PRIVATE_ISOLATED"} ELSE {"PUBLIC", "PRIVATE_WITH_EGRESS"}

Vpc(id, environment) ==
  [kind |-> "vpc", id |-> id, maxAzs |-> 2, natGateways |-> natGateways(environment),
   subnetTypes |-> vpcSubnetTypes(natGateways(environment))]

\* a service given no subnet selection is placed in the VPC's private
\* subnets: with egress when they exist, isolated otherwise
defaultTaskSubnets(vpc) ==
  IF "PRIVATE_WITH_EGRESS" \in vpc.subnetTypes THEN "PRIVATE_WITH_EGRESS"
  ELSE IF "PRIVATE_ISOLATED" \in vpc.subnetTypes THEN "PRIVATE_ISOLATED"
  ELSE "PUBLIC"

Secret(id, templateValue) ==
  [kind |-> "secret", id |-> id, description |-> "API Key for Typesense",
   secretStringTemplate |-> JSONstringify("apiKey", templateValue),
   generateStringKey |-> "apiKey"]

\* BaseService: an awsvpc service given no vpcSubnets goes to the public
\* subnets when assignPublicIp is set and to the default selection otherwise
taskSubnets(vpc, assignPublicIp) ==
  IF assignPublicIp THEN "PUBLIC" ELSE defaultTaskSubnets(vpc)

\* secrets: { TYPESENSE_API_KEY: ecs.Secret.fromSecretsManager(apiKeySecret, 'apiKey') }
containerSecrets(secretId) ==
  {[name |-> "TYPESENSE_API_KEY", valueFrom |-> FromSecretsManager(secretId, "apiKey")]}

\* command: ['--data-dir', '/data', '--enable-cors']
containerCommand == <<"--data-dir", "/data", "--enable-cors">>

\* service.connections.allowFromAnyIpv4(ec2.Port.tcp(8108), '...')
allowFromAnyIpv4(target, port, description) ==
  [target |-> target, peer |-> "0.0.0.0/0", protocol |-> "tcp", port |-> port,
   description |-> description]

\* connections.allowFrom(peer, ec2.Port.tcp(port), '...')
allowFrom(target, peer, port, description) ==
  [target |-> target, peer |-> peer, protocol |-> "tcp", port |-> port,
   description |-> description]

(***************************************************************************)
(* First revision (typesense-stack.ts lines 14-176)                        *)
(***************************************************************************)
\* the constructs of the dev/stage branch
devStageGraph_r1(environment, vpc, secretId, clusterId) ==
  [constructs |-> <<"typesense-instance-role", "typesense-launch-template",
                    "typesense-asg", "asg-capacity-provider", "typesense-task-def",
                    "typesense-container", "typesense-service">>,
   launchTemplate |->
     [kind |-> "launchTemplate", id |-> "typesense-launch-template",
      instanceType |-> "t3.micro", role |-> "typesense-instance-role",
      userData |-> <<Interpolate("echo ECS_CLUSTER=", clusterId, "clusterName")>>],
   autoScalingGroup |->
     [kind |-> "asg", id |-> "typesense-asg", instanceType |-> "t3.micro",
      minCapacity |-> 1, maxCapacity |-> 1, subnetType |-> "PUBLIC",
      newInstancesProtectedFromScaleIn |-> FALSE],
   capacityProvider |->
     [kind |-> "asgCapacityProvider", id |-> "asg-capacity-provider",
      autoScalingGroup |-> "typesense-asg"],
   taskDefinition |->
     [kind |-> "ec2TaskDefinition", id |-> "typesense-task-def", networkMode |-> "AWS_VPC"],
   container |->
     [kind |-> "container", id |-> "typesense-container",
      image |-> "typesense/typesense:26.0", memoryLimitMiB |-> 900, cpu |-> 512,
      secrets |-> containerSecrets(secretId),
      command |-> containerCommand,
      environment |-> {[name |-> "TYPESENSE_DATA_DIR", value |-> "/data"]},
      portMappings |-> {[containerPort |-> 8108, hostPort |-> 8108, protocol |-> "tcp"]}],
   service |->
     [kind |-> "ec2Service", id |-> "typesense-service", desiredCount |-> 1,
      capacityProvider |-> "asg-capacity-provider", assignPublicIp |-> TRUE,
      subnetType |-> taskSubnets(vpc, TRUE)],
   loadBalancer |-> NoResource,
   healthCheck |-> NoResource,
   ingress |-> {allowFromAnyIpv4("typesense-service", 8108, "Allow Typesense API access")},
   outputs |-> <<>>]

\* the constructs of the else branch
elseGraph_r1(environment, vpc, secretId, clusterId) ==
  [constructs |-> <<"typesense-service", "typesense-service/LB",
                    "typesense-load-balancer-dns">>,
   launchTemplate |-> NoResource,
   autoScalingGroup |-> NoResource,
   capacityProvider |-> NoResource,
   taskDefinition |->
     [kind |-> "fargateTaskDefinition", id |-> "typesense-service/TaskDef",
      networkMode |-> "AWS_VPC"],
   container |->
     [kind |-> "container", id |-> "typesense-service/TaskDef/web",
      image |-> "typesense/typesense:26.0", memoryLimitMiB |-> 1024, cpu |-> 512,
      secrets |-> containerSecrets(secretId),
      command |-> containerCommand,
      environment |-> {},
      portMappings |-> {[containerPort |-> 8108, hostPort |-> 8108, protocol |-> "tcp"]}],
   service |->
     [kind |-> "fargateService", id |-> "typesense-service", desiredCount |-> 2,
      capacityProvider |-> "", assignPublicIp |-> FALSE,
      subnetType |-> taskSubnets(vpc, FALSE)],
   loadBalancer |->
     [kind |-> "applicationLoadBalancer", id |-> "typesense-service/LB",
      internetFacing |-> TRUE],
   healthCheck |-> [kind |-> "healthCheck", path |-> "/health"],
   ingress |-> {allowFrom("typesense-service", "typesense-service/LB", 8108,
                          "Load balancer to target")},
   outputs |-> <<CfnOutput("typesense-load-balancer-dns",
                           Ref("typesense-service/LB", "loadBalancerDnsName"))>>]

\* the output declarations with the dev/stage guard of the names lost
secretOutputsUnguarded_r1(environment, secretId, clusterId) ==
  <<CfnOutput("typesense-api-key-secret-arn", Ref(secretId, "secretArn")),
    CfnOutput("typesense-api-key-secret-name", Ref(secretId, "secretName")),
    CfnOutput("typesense-cluster-name", Ref(clusterId, "clusterName")),
    CfnOutput("typesense-service-name", Literal("typesense-service"))>>

\* the CfnOutput declarations after the branch (lines 153-174)
secretOutputs_r1(environment, secretId, clusterId) ==
  <<CfnOutput("typesense-api-key-secret-arn", Ref(secretId, "secretArn")),
    CfnOutput("typesense-api-key-secret-name", Ref(secretId, "secretName"))>>
  \o (IF isDevOrStage(environment)
      THEN <<CfnOutput("typesense-cluster-name", Ref(clusterId, "clusterName")),
             CfnOutput("typesense-service-name", Literal("typesense-service"))>>
      ELSE <<>>)

RECURSIVE outputIds(_)
outputIds(outputs) ==
  IF outputs = <<>> THEN <<>> ELSE <<Head(outputs).id>> \o outputIds(Tail(outputs))

TypesenseStack_r1(environment) ==
  LET vpc == Vpc("typesense-vpc", environment)
      apiKeySecret == Secret("typesense-api-key", "xyz")
      cluster == [kind |-> "cluster", id |-> "typesense-cluster", vpc |-> vpc.id,
                  clusterName |-> Ref("typesense-cluster", "clusterName")]
      branch == IF isDevOrStage(environment)
                THEN devStageGraph_r1(environment, vpc, apiKeySecret.id, cluster.id)
                ELSE elseGraph_r1(environment, vpc, apiKeySecret.id, cluster.id)
      tail == secretOutputs_r1(environment, apiKeySecret.id, cluster.id)
  IN [environment |-> environment,
      constructs |-> <<vpc.id, apiKeySecret.id, cluster.id>> \o branch.constructs
                     \o outputIds(tail),
      vpc |-> vpc,
      secret |-> apiKeySecret,
      cluster |-> cluster,
      logGroup |-> NoResource,
      launchTemplate |-> branch.launchTemplate,
      autoScalingGroup |-> branch.autoScalingGroup,
      capacityProvider |-> branch.capacityProvider,
      taskDefinition |-> branch.taskDefinition,
      container |-> branch.container,
      service |-> branch.service,
      loadBalancer |-> branch.loadBalancer,
      healthCheck |-> branch.healthCheck,
      ingress |-> branch.ingress,
      outputs |-> branch.outputs \o tail,
      apiUrl |-> NoResource]

(***************************************************************************)
(* Second revision (typesense-stack.ts lines 190-306): no outputs          *)
(***************************************************************************)
devStageGraph_r2(environment, vpc, secretId, clusterId) ==
  [constructs |-> <<"TypesenseASG", "AsgCapacityProvider", "TypesenseTaskDef",
                    "TypesenseContainer", "TypesenseService">>,
   launchTemplate |-> NoResource,
   autoScalingGroup |->
     [kind |-> "asg", id |-> "TypesenseASG", instanceType |-> "t2.micro",
      minCapacity |-> 1, maxCapacity |-> 1, subnetType |-> "PUBLIC",
      newInstancesProtectedFromScaleIn |-> FALSE],
   capacityProvider |->
     [kind |-> "asgCapacityProvider", id |-> "AsgCapacityProvider",
      autoScalingGroup |-> "TypesenseASG"],
   taskDefinition |->
     [kind |-> "ec2TaskDefinition", id |-> "TypesenseTaskDef", networkMode |-> "AWS_VPC"],
   container |->
     [kind |-> "container", id |-> "TypesenseContainer",
      image |-> "typesense/typesense:26.0", memoryLimitMiB |-> 900, cpu |-> 512,
      secrets |-> containerSecrets(secretId),
      command |-> containerCommand,
      environment |-> {[name |-> "TYPESENSE_DATA_DIR", value |-> "/data"]},
      portMappings |-> {[containerPort |-> 8108, hostPort |-> 8108, protocol |-> "tcp"]}],
   service |->
     [kind |-> "ec2Service", id |-> "TypesenseService", desiredCount |-> 1,
      capacityProvider |-> "AsgCapacityProvider", assignPublicIp |-> TRUE,
      subnetType |-> taskSubnets(vpc, TRUE)],
   loadBalancer |-> NoResource,
   healthCheck |-> NoResource,
   ingress |-> {allowFromAnyIpv4("TypesenseService", 8108, "Allow Typesense API access")},
   outputs |-> <<>>]

elseGraph_r2(environment, vpc, secretId, clusterId) ==
  [constructs |-> <<"TypesenseService", "TypesenseService/LB">>,
   launchTemplate |-> NoResource,
   autoScalingGroup |-> NoResource,
   capacityProvider |-> NoResource,
   taskDefinition |->
     [kind |-> "fargateTaskDefinition", id |-> "TypesenseService/TaskDef",
      networkMode |-> "AWS_VPC"],
   container |->
     [kind |-> "container", id |-> "TypesenseService/TaskDef/web",
      image |-> "typesense/typesense:26.0", memoryLimitMiB |-> 1024, cpu |-> 512,
      secrets |-> containerSecrets(secretId),
      command |-> containerCommand,
      environment |-> {},
      portMappings |-> {[containerPort |-> 8108, hostPort |-> 8108, protocol |-> "tcp"]}],
   service |->
     [kind |-> "fargateService", id |-> "TypesenseService", desiredCount |-> 2,
      capacityProvider |-> "", assignPublicIp |-> FALSE,
      subnetType |-> taskSubnets(vpc, FALSE)],
   loadBalancer |->
     [kind |-> "applicationLoadBalancer", id |-> "TypesenseService/LB",
      internetFacing |-> TRUE],
   healthCheck |-> [kind |-> "healthCheck", path |-> "/health"],
   ingress |-> {allowFrom("TypesenseService", "TypesenseService/LB", 8108,
                          "Load balancer to target")},
   outputs |-> <<>>]

TypesenseStack_r2(environment) ==
  LET vpc == Vpc("TypesenseVpc", environment)
      apiKeySecret == Secret("TypesenseApiKey", "xyz")
      cluster == [kind |-> "cluster", id |-> "TypesenseCluster", vpc |-> vpc.id,
                  clusterName |-> Ref("TypesenseCluster", "clusterName")]
      branch == IF isDevOrStage(environment)
                THEN devStageGraph_r2(environment, vpc, apiKeySecret.id, cluster.id)
                ELSE elseGraph_r2(environment, vpc, apiKeySecret.id, cluster.id)
  IN [environment |-> environment,
      constructs |-> <<vpc.id, apiKeySecret.id, cluster.id>> \o branch.constructs,
      vpc |-> vpc,
      secret |-> apiKeySecret,
      cluster |-> cluster,
      logGroup |-> NoResource,
      launchTemplate |-> branch.launchTemplate,
      autoScalingGroup |-> branch.autoScalingGroup,
      capacityProvider |-> branch.capacityProvider,
      taskDefinition |-> branch.taskDefinition,
      container |-> branch.container,
      service |-> branch.service,
      loadBalancer |-> branch.loadBalancer,
      healthCheck |-> branch.healthCheck,
      ingress |-> branch.ingress,
      outputs |-> branch.outputs,
      apiUrl |-> NoResource]

(***************************************************************************)
(* Third revision (typesense-stack.ts lines 326-490): one unconditional    *)
(* graph, the environment only selects the NAT gateway, the subnet type    *)
(* and the names                                                           *)
(***************************************************************************)
\* subnetType: environment === 'prod' ? PRIVATE_WITH_EGRESS : PUBLIC
asgSubnetType_r3(environment) ==
  IF environment = "prod" THEN "PRIVATE_WITH_EGRESS" ELSE "PUBLIC"

\* the URL taken from the load balancer of the managed service pattern,
\* which the third revision does not build
apiUrlOfPattern_r3(loadBalancerId) ==
  Interpolate("http://", "typesense-service/LB", "loadBalancerDnsName")

\* this.apiUrl = `http://${this.loadBalancer.loadBalancerDnsName}`
apiUrl_r3(loadBalancerId) == Interpolate("http://", loadBalancerId, "loadBalancerDnsName")

\* the CfnOutput declarations (lines 479-488)
outputs_r3(apiUrl, secretId) ==
  <<CfnOutput("typesense-api-url", apiUrl),
    CfnOutput("typesense-api-key-secret-arn", Ref(secretId, "secretArn"))>>

\* the capacity provider declared under the id of the auto-scaling group
constructIdsReused_r3 ==
  <<"typesense-vpc", "typesense-api-key", "typesense-cluster", "typesense-log-group",
    "typesense-asg", "typesense-asg", "typesense-task-def",
    "typesense-container", "typesense-service", "typesense-alb",
    "typesense-listener", "typesense-target">>

\* the construct ids in construction order
constructIds_r3 ==
  <<"typesense-vpc", "typesense-api-key", "typesense-cluster", "typesense-log-group",
    "typesense-asg", "typesense-capacity-provider", "typesense-task-def",
    "typesense-container", "typesense-service", "typesense-alb",
    "typesense-listener", "typesense-target">>

TypesenseStack_r3(environment, apiKey) ==
  LET vpc == Vpc("typesense-vpc", environment)
      apiKeySecret == Secret("typesense-api-key", apiKey)
      cluster == [kind |-> "cluster", id |-> "typesense-cluster", vpc |-> vpc.id,
                  clusterName |-> Literal("keysely-typesense-cluster-" \o environment)]
      loadBalancer == [kind |-> "applicationLoadBalancer", id |-> "typesense-alb",
                       internetFacing |-> TRUE]
      apiUrl == apiUrl_r3(loadBalancer.id)
      outputs == outputs_r3(apiUrl, apiKeySecret.id)
  IN [environment |-> environment,
      constructs |-> constructIds_r3 \o outputIds(outputs),
      vpc |-> vpc,
      secret |-> apiKeySecret,
      cluster |-> cluster,
      logGroup |-> [kind |-> "logGroup", id |-> "typesense-log-group",
                    logGroupName |-> "/ecs/typesense-" \o environment],
      launchTemplate |-> NoResource,
      autoScalingGroup |->
        [kind |-> "asg", id |-> "typesense-asg", instanceType |-> "t3.micro",
         minCapacity |-> 1, maxCapacity |-> 1,
         subnetType |-> asgSubnetType_r3(environment),
         newInstancesProtectedFromScaleIn |-> FALSE],
      capacityProvider |->
        [kind |-> "asgCapacityProvider", id |-> "typesense-capacity-provider",
         autoScalingGroup |-> "typesense-asg"],
      taskDefinition |->
        [kind |-> "ec2TaskDefinition", id |-> "typesense-task-def",
         networkMode |-> "BRIDGE"],
      container |->
        [kind |-> "container", id |-> "typesense-container",
         image |-> "typesense/typesense:26.0", memoryLimitMiB |-> 512, cpu |-> 0,
         secrets |-> containerSecrets(apiKeySecret.id),
         command |-> containerCommand,
         environment |-> {[name |-> "TYPESENSE_DATA_DIR", value |-> "/data"],
                          [name |-> "TYPESENSE_ENABLE_CORS", value |-> "true"]},
         portMappings |-> {[containerPort |-> 8108, hostPort |-> 8108, protocol |-> "tcp"]}],
      service |->
        [kind |-> "ec2Service", id |-> "typesense-service", desiredCount |-> 1,
         capacityProvider |-> "typesense-capacity-provider", assignPublicIp |-> FALSE,
         subnetType |-> ""],
      loadBalancer |-> loadBalancer,
      healthCheck |-> [kind |-> "healthCheck", path |-> "/health"],
      ingress |-> {allowFrom("typesense-asg", "typesense-alb", 8108,
                             "Allow ALB to connect to Typesense instances")},
      outputs |-> outputs,
      apiUrl |-> apiUrl]

(***************************************************************************)
(* The state machine: the app constructs stacks and re-synthesises them    *)
(***************************************************************************)
NotConstructed == [kind |-> "none"]

\* new TypesenseStack(app, id, { environment }) under the revision in use;
\* bytes are the random bytes generateApiKey draws (third revision only)
TypesenseStack(rev, environment, bytes) ==
  IF rev = 1 THEN TypesenseStack_r1(environment)
  ELSE IF rev = 2 THEN TypesenseStack_r2(environment)
  ELSE TypesenseStack_r3(environment, generateApiKey(bytes))

\* the random draws a synthesis makes: none before the third revision
draws(rev) == IF rev = 3 THEN randomBytes(KeyBytes) ELSE {<<>>}

Init ==
  /\ revision \in Revisions
  /\ stacks = [id \in StackIds |-> NotConstructed]

\* first synthesis of the app: the stack is constructed
Construct(id, environment, bytes) ==
  /\ stacks[id].kind = "none"
  /\ LET graph == TypesenseStack(revision, environment, bytes)
     IN stacks' = [stacks EXCEPT ![id] =
                     [kind |-> "stack", environment |-> environment,
                      first |-> graph, last |-> graph, resolves |-> 1]]
  /\ UNCHANGED revision

\* a later synthesis of the same app (a stack update): the constructor runs
\* again with the same id and the same environment
Resynth(id, bytes) ==
  /\ stacks[id].kind = "stack"
  /\ stacks[id].resolves < MaxResolves
  /\ stacks' = [stacks EXCEPT
                  ![id].last = TypesenseStack(revision, stacks[id].environment, bytes),
                  ![id].resolves = @ + 1]
  /\ UNCHANGED revision

Next ==
  \/ \E id \in StackIds, environment \in EnvironmentInputs, bytes \in draws(revision) :
       Construct(id, environment, bytes)
  \/ \E id \in StackIds, bytes \in draws(revision) : Resynth(id, bytes)

Spec == Init /\ [][Next]_vars

Constructed == {id \in StackIds : stacks[id].kind = "stack"}

\* the graphs that exist: of the first and of the latest synthesis
Graphs == UNION {{stacks[id].first, stacks[id].last} : id \in Constructed}

(***************************************************************************)
(* Readings of a graph used by the properties                              *)
(***************************************************************************)
RECURSIVE seqToSet(_)
seqToSet(seq) == IF seq = <<>> THEN {} ELSE {Head(seq)} \cup seqToSet(Tail(seq))

\* the topology variant a graph realises: Elastic is a load-balanced service
\* on managed elastic compute, PersistentInstance an auto-scaling group
\* pinned to one instance with no such service
Topology(g) ==
  IF g.service.kind = "fargateService" /\ g.loadBalancer.kind # "none" THEN "Elastic"
  ELSE IF /\ g.autoScalingGroup.kind = "asg"
          /\ g.autoScalingGroup.minCapacity = 1
          /\ g.autoScalingGroup.maxCapacity = 1
       THEN "PersistentInstance"
  ELSE "none"

OutputKeySet(g) == seqToSet(outputIds(g.outputs))

\* the output key the code declares for a key of the output contract
OutputKey(key) == "typesense-" \o key

Occurrences(seq, x) == Cardinality({i \in 1..Len(seq) : seq[i] = x})

NoDuplicates(seq) == \A i, j \in 1..Len(seq) : seq[i] = seq[j] => i = j

\* the subnet types the compute (instances, awsvpc tasks) is placed in
ComputeSubnets(g) ==
  (IF g.autoScalingGroup.kind = "asg" THEN {g.autoScalingGroup.subnetType} ELSE {})
  \cup (IF g.service.kind # "none" /\ g.service.subnetType # ""
        THEN {g.service.subnetType} ELSE {})

\* the value the secret's definition carries for the credential field
CredentialPlaintext(g) == JSONfield(g.secret.secretStringTemplate, g.secret.generateStringKey)

\* the strings that appear in plaintext in the graph and its outputs
PlaintextFields(g) ==
  seqToSet(g.secret.secretStringTemplate)
  \cup {e.value : e \in g.container.environment}
  \cup seqToSet(g.container.command)
  \cup {g.outputs[i].value.literal : i \in 1..Len(g.outputs)}
  \cup {g.outputs[i].value.prefix : i \in 1..Len(g.outputs)}

(***************************************************************************)
(* C1: for dev and stage the stack holds an auto-scaling group with        *)
(* minCapacity = maxCapacity = 1 and no load-balanced service on managed   *)
(* elastic compute.                                                        *)
(***************************************************************************)
C1_DevStagePersistentInstance ==
  \A g \in Graphs :
    g.environment \in {"dev", "stage"} =>
      /\ g.autoScalingGroup.kind = "asg"
      /\ g.autoScalingGroup.minCapacity = 1
      /\ g.autoScalingGroup.maxCapacity = 1
      /\ g.service.kind # "fargateService"
      /\ Topology(g) = "PersistentInstance"

C1_Witness ==
  /\ \E g \in Graphs : g.environment = "dev" /\ Topology(g) = "PersistentInstance"
  /\ \E g \in Graphs : g.environment = "stage" /\ Topology(g) = "PersistentInstance"

(***************************************************************************)
(* C2: for prod the stack holds the Elastic topology: a load-balanced      *)
(* service on managed elastic compute with desiredCount >= 2 and a load    *)
(* balancer.                                                               *)
(***************************************************************************)
C2_ProdElastic ==
  \A g \in Graphs :
    g.environment = "prod" =>
      /\ Topology(g) = "Elastic"
      /\ g.service.desiredCount >= 2
      /\ g.loadBalancer.kind # "none"

(***************************************************************************)
(* C3: an environment outside {dev, stage, prod} never yields a stack      *)
(* with a resource in it: construction fails before the network, the       *)
(* credential, the cluster or the compute is allocated.                    *)
(***************************************************************************)
C3_InvalidEnvironmentFails ==
  \A g \in Graphs :
    g.environment \notin Environments =>
      /\ g.constructs = <<>>
      /\ g.vpc.kind = "none"
      /\ g.secret.kind = "none"
      /\ g.service.kind = "none"

DeclaredOutputKeys(rev, environment) ==
  IF rev = 1
  THEN IF environment \in {"dev", "stage"}
       THEN {OutputKey("api-key-secret-arn"), OutputKey("api-key-secret-name"),
             OutputKey("cluster-name"), OutputKey("service-name")}
       ELSE {OutputKey("load-balancer-dns"), OutputKey("api-key-secret-arn"),
             OutputKey("api-key-secret-name")}
  ELSE IF rev = 2 THEN {}
  ELSE {OutputKey("api-url"), OutputKey("api-key-secret-arn")}

C5_NoCredentialPlaintext ==
  \A g \in Graphs :
    /\ CredentialPlaintext(g) \notin PlaintextFields(g)
    /\ \A sec \in g.container.secrets : sec.valueFrom.secret = g.secret.id

C7_CredentialDefinitionStable ==
  \A id \in Constructed :
    /\ stacks[id].last.secret.secretStringTemplate
         = stacks[id].first.secret.secretStringTemplate
    /\ stacks[id].last.secret.generateStringKey
         = stacks[id].first.secret.generateStringKey

\* the outputs of a graph that publish the service endpoint
EndpointOutputs(g) ==
  {g.outputs[i] : i \in {j \in 1..Len(g.outputs) :
      g.outputs[j].id \in {OutputKey("api-url"), OutputKey("load-balancer-dns")}}}

ApiUrlOutputs(g) ==
  {g.outputs[i] : i \in {j \in 1..Len(g.outputs) : g.outputs[j].id = OutputKey("api-url")}}

C9_ExactlyOneBranch ==
  \A g \in Graphs :
    /\ Occurrences(g.constructs, g.vpc.id) = 1
    /\ Occurrences(g.constructs, g.secret.id) = 1
    /\ (g.autoScalingGroup.kind = "asg") # (g.loadBalancer.kind # "none")

(***************************************************************************)
(* C10: for dev and stage the compute is in a public subnet and the        *)
(* network has no NAT gateway; for prod the compute is in a                *)
(* private-with-egress subnet and the network has at least one NAT         *)
(* gateway; no stack places compute in a private-with-egress subnet of a   *)
(* network without a NAT gateway.                                          *)
(***************************************************************************)
C10_PlacementMatchesEgress ==
  \A g \in Graphs :
    /\ g.environment \in {"dev", "stage"} =>
         ComputeSubnets(g) = {"PUBLIC"} /\ g.vpc.natGateways = 0
    /\ g.environment = "prod" =>
         ComputeSubnets(g) = {"PRIVATE_WITH_EGRESS"} /\ g.vpc.natGateways >= 1
    /\ "PRIVATE_WITH_EGRESS" \in ComputeSubnets(g) => g.vpc.natGateways >= 1

C10_Witness ==
  /\ \E g \in Graphs : g.environment = "prod" /\ g.vpc.natGateways = 1
                       /\ ComputeSubnets(g) = {"PRIVATE_WITH_EGRESS"}
  /\ \E g \in Graphs : g.environment \in {"dev", "stage"} /\ g.vpc.natGateways = 0
                       /\ ComputeSubnets(g) = {"PUBLIC"}

(***************************************************************************)
(* C11: whenever the PersistentInstance topology is built (dev, stage),    *)
(* the graph holds a named inbound rule allowing TCP 8108 from any source  *)
(* address to the service, the container's port 8108 is mapped to host     *)
(* port 8108, and the task definition uses bridge networking.              *)
(***************************************************************************)
C11_OpenPortBridgeMapping ==
  \A g \in Graphs :
    (g.environment \in {"dev", "stage"} /\ Topology(g) = "PersistentInstance") =>
      /\ \E rule \in g.ingress :
           /\ rule.target = g.service.id
           /\ rule.peer = "0.0.0.0/0"
           /\ rule.protocol = "tcp"
           /\ rule.port = 8108
           /\ rule.description # ""
      /\ \E pm \in g.container.portMappings :
           pm.containerPort = 8108 /\ pm.hostPort = 8108
      /\ g.taskDefinition.networkMode = "BRIDGE"

====
